---------------------------- MODULE Spec2Model ----------------------------
(***************************************************************************)
(* cpfuzz: the dispatch layer between test-input construction code and a   *)
(* backend.  A context_t is a table of backend function pointers plus an   *)
(* opaque backend state pointer; every public primitive forwards through   *)
(* the table.  src/src/cpfuzz.c holds the Generation Context (pull),       *)
(* src/src/cpfuzz.cpp the Consumption Context (push) and the harness entry *)
(* point, src/cpfuzz.h the derived helper write_i64_seq.                   *)
(*                                                                         *)
(* The backends (buffer-backed generator, recording sink, random source)   *)
(* are not part of the three source files; they are modelled from the      *)
(* specification's description of them.                                    *)
(***************************************************************************)
EXTENDS Integers, Sequences, FiniteSets, TLC

(***************************************************************************)
(* Bounds of the model.                                                    *)
(***************************************************************************)
I64Bits == 7    \* width of the modelled i64 (two's complement)
MaxLen == 2     \* longest array / sequence argument
MaxCalls == 2   \* primitive calls per session
MaxWrites == 3  \* writes per session of the recording-sink scenario

I64Min == -(2 ^ (I64Bits - 1))
I64Max == (2 ^ (I64Bits - 1)) - 1

\* The (lower, higher) pairs callers pass: an ordinary range, the degenerate
\* ranges at 0 and at the top of the domain, the whole domain, and a range
\* with lower > higher.
Ranges == {<<5, 10>>, <<0, 0>>, <<I64Max, I64Max>>, <<I64Min, I64Max>>, <<10, 5>>}
\* The ranges of the array requests.
ArrayRanges == {<<5, 10>>, <<10, 5>>}
\* The integers and strings callers write.
WriteVals == {42, I64Min}
WriteStrs == {"abc", ""}

RECURSIVE SeqsUpTo(_, _)
SeqsUpTo(S, n) ==
  IF n = 0 THEN {<<>>}
  ELSE LET shorter == SeqsUpTo(S, n - 1)
       IN  shorter \cup {Append(s, x) : s \in {t \in shorter : Len(t) = n - 1}, x \in S}

(***************************************************************************)
(* Argument and return values of an indirect call.  C passes pointers,     *)
(* integers and strings in the same argument list; each value carries its  *)
(* type tag.                                                               *)
(***************************************************************************)
PtrArg(p) == [t |-> "ptr", p |-> p, n |-> 0, s |-> ""]
I64Arg(n) == [t |-> "i64", p |-> "", n |-> n, s |-> ""]
SizeArg(n) == [t |-> "size_t", p |-> "", n |-> n, s |-> ""]
StrArg(s) == [t |-> "char*", p |-> "", n |-> 0, s |-> s]

RetVoid == [t |-> "void", v |-> <<>>]
RetInt(n) == [t |-> "i64", v |-> <<n>>]
RetArray(a) == [t |-> "array", v |-> a]
RetThrow == [t |-> "throw", v |-> <<>>]

(***************************************************************************)
(* Backend state objects (context_state_t is opaque to the dispatch        *)
(* layer).  The world holds every object a backend function can touch.     *)
(***************************************************************************)
BufPtrs == {"bufA", "bufB"}
SinkPtrs == {"sinkA", "sinkB"}
MemPtrs == {"ascii_buf"}

RecNl == [op |-> "nl", n |-> 0, s |-> ""]
RecI64(v) == [op |-> "i64", n |-> v, s |-> ""]
RecAscii(s) == [op |-> "ascii", n |-> 0, s |-> s]

Exhausted(b) == b.pos >= Len(b.bytes)
NextByte(b) == b.bytes[b.pos + 1]

Crash(w) == {[ret |-> RetVoid, world |-> [w EXCEPT !.crashed = TRUE]]}

\* Buffer-backed generator: one byte per value, lower + byte mod span; the
\* fallback once the buffer is exhausted is lower.  lower > higher is a
\* precondition violation with an unspecified result.
BufValues(b, lower, higher) ==
  IF Exhausted(b) THEN {lower}
  ELSE IF lower <= higher THEN {lower + (NextByte(b) % (higher - lower + 1))}
  ELSE {lower, higher}

Advance(b) == IF Exhausted(b) THEN b ELSE [b EXCEPT !.pos = @ + 1]

buf_gen_new_line(args, w) ==
  LET p == args[1].p
  IN  IF args[1].t # "ptr" \/ p \notin BufPtrs THEN Crash(w)
      ELSE {[ret |-> RetVoid, world |-> [w EXCEPT !.buf[p] = Advance(@)]]}

buf_gen_i64(args, w) ==
  LET p == args[1].p
  IN  IF args[1].t # "ptr" \/ p \notin BufPtrs THEN Crash(w)
      ELSE {[ret |-> RetInt(v), world |-> [w EXCEPT !.buf[p] = Advance(@)]]
              : v \in BufValues(w.buf[p], args[2].n, args[3].n)}

RECURSIVE BufArrays(_, _, _, _)
\* The (array, buffer) pairs that `length` successive draws can produce.
BufArrays(b, length, lower, higher) ==
  IF length = 0 THEN {[arr |-> <<>>, buf |-> b]}
  ELSE UNION {{[arr |-> <<v>> \o r.arr, buf |-> r.buf]
                 : r \in BufArrays(Advance(b), length - 1, lower, higher)}
                : v \in BufValues(b, lower, higher)}

buf_gen_i64_array(args, w) ==
  LET p == args[1].p
  IN  IF args[1].t # "ptr" \/ p \notin BufPtrs THEN Crash(w)
      ELSE {[ret |-> RetArray(r.arr), world |-> [w EXCEPT !.buf[p] = r.buf]]
              : r \in BufArrays(w.buf[p], args[2].n, args[3].n, args[4].n)}

AsciiOf(byte) == IF byte = 0 THEN "a" ELSE "b"

buf_gen_ascii(args, w) ==
  LET p == args[1].p
      dst == args[2].p
  IN  IF args[1].t # "ptr" \/ p \notin BufPtrs \/ dst \notin MemPtrs THEN Crash(w)
      ELSE LET b == w.buf[p]
               text == IF Exhausted(b) THEN "" ELSE AsciiOf(NextByte(b))
           IN  {[ret |-> RetVoid,
                 world |-> [w EXCEPT !.buf[p] = Advance(@), !.mem[dst] = text]]}

\* Recording sink: one record per write, appended in call order.
sink_write_nl(args, w) ==
  LET p == args[1].p
  IN  IF args[1].t # "ptr" \/ p \notin SinkPtrs THEN Crash(w)
      ELSE {[ret |-> RetVoid, world |-> [w EXCEPT !.sink[p] = Append(@, RecNl)]]}

sink_write_i64(args, w) ==
  LET p == args[1].p
  IN  IF args[1].t # "ptr" \/ p \notin SinkPtrs THEN Crash(w)
      ELSE {[ret |-> RetVoid,
             world |-> [w EXCEPT !.sink[p] = Append(@, RecI64(args[2].n))]]}

sink_write_ascii(args, w) ==
  LET p == args[1].p
  IN  IF args[1].t # "ptr" \/ p \notin SinkPtrs THEN Crash(w)
      ELSE {[ret |-> RetVoid,
             world |-> [w EXCEPT !.sink[p] = Append(@, RecAscii(args[2].s))]]}

\* Random source: a process-wide generator (the slot takes no state pointer).
RngStep(r) == (r * 5 + 3) % 8

rng_rand_i64(args, w) ==
  LET lower == args[1].n
      higher == args[2].n
      vals == IF lower <= higher THEN {lower + (w.rng % (higher - lower + 1))}
              ELSE {lower, higher}
  IN  {[ret |-> RetInt(v), world |-> [w EXCEPT !.rng = RngStep(@)]] : v \in vals}

(***************************************************************************)
(* An indirect call through a function pointer: the backend function runs  *)
(* on the arguments it is handed, and the call is recorded in the trace    *)
(* with its arguments and its result.                                      *)
(***************************************************************************)
Backend(fn, args, w) ==
  CASE fn = "buf_gen_new_line" -> buf_gen_new_line(args, w)
    [] fn = "buf_gen_i64" -> buf_gen_i64(args, w)
    [] fn = "buf_gen_i64_array" -> buf_gen_i64_array(args, w)
    [] fn = "buf_gen_ascii" -> buf_gen_ascii(args, w)
    [] fn = "sink_write_nl" -> sink_write_nl(args, w)
    [] fn = "sink_write_i64" -> sink_write_i64(args, w)
    [] fn = "sink_write_ascii" -> sink_write_ascii(args, w)
    [] fn = "rng_rand_i64" -> rng_rand_i64(args, w)

Invoke(fn, args, w) ==
  {[ret |-> o.ret, world |-> o.world,
    trace |-> <<[fn |-> fn, args |-> args, ret |-> o.ret]>>]
     : o \in Backend(fn, args, w)}

(***************************************************************************)
(* The dispatch layer.  Each public primitive is given the context_t the   *)
(* caller's pointer designates and the world, and yields the outcomes of   *)
(* its body: the value returned, the world and the context afterwards, the *)
(* indirect calls made (trace) and the public primitives called (via).     *)
(***************************************************************************)
\* A forwarding body: nothing but the indirect call; *context is not stored to.
Forward(context, outs) ==
  {[ret |-> o.ret, world |-> o.world, trace |-> o.trace, via |-> <<>>,
    context |-> context] : o \in outs}

\* A value cut to a narrower integer type, as a cast to int would.
Narrow(v) ==
  LET m == 2 ^ (I64Bits - 1)
  IN  ((v + (m \div 2)) % m) - (m \div 2)

\* src/src/cpfuzz.c
gen_newline(context, w) ==
  Forward(context, Invoke(context.gen_new_line, <<PtrArg(context.context_state)>>, w))

\* Mutant: the result passes through an int.
gen_i64_narrowed(context, lower, higher, w) ==
  {[o EXCEPT !.ret = RetInt(Narrow(o.ret.v[1]))] :
     o \in Forward(context, Invoke(context.gen_i64,
             <<PtrArg(context.context_state), I64Arg(lower), I64Arg(higher)>>, w))}

\* Mutant: lower and higher change places in the indirect call.
gen_i64_swapped(context, lower, higher, w) ==
  Forward(context, Invoke(context.gen_i64,
            <<PtrArg(context.context_state), I64Arg(higher), I64Arg(lower)>>, w))

gen_i64(context, lower, higher, w) ==
  Forward(context, Invoke(context.gen_i64,
            <<PtrArg(context.context_state), I64Arg(lower), I64Arg(higher)>>, w))

\* Mutant: lower and higher change places in the indirect call.
gen_i64_array_swapped(context, length, lower, higher, w) ==
  Forward(context, Invoke(context.gen_i64_array,
            <<PtrArg(context.context_state), SizeArg(length), I64Arg(higher),
              I64Arg(lower)>>, w))

gen_i64_array(context, length, lower, higher, w) ==
  Forward(context, Invoke(context.gen_i64_array,
            <<PtrArg(context.context_state), SizeArg(length), I64Arg(lower),
              I64Arg(higher)>>, w))

\* Mutant: a null pointer is passed for the backend state.
gen_ascii_null_state(context, ascii, w) ==
  Forward(context, Invoke(context.gen_ascii, <<PtrArg(""), PtrArg(ascii)>>, w))

gen_ascii(context, ascii, w) ==
  Forward(context, Invoke(context.gen_ascii,
            <<PtrArg(context.context_state), PtrArg(ascii)>>, w))

\* src/src/cpfuzz.cpp
write_nl(context, w) ==
  Forward(context, Invoke(context.write_nl, <<PtrArg(context.context_state)>>, w))

\* Mutant: the value passes through an int.
write_i64_narrowed(context, val, w) ==
  Forward(context, Invoke(context.write_i64,
            <<PtrArg(context.context_state), I64Arg(Narrow(val))>>, w))

write_i64(context, val, w) ==
  Forward(context, Invoke(context.write_i64,
            <<PtrArg(context.context_state), I64Arg(val)>>, w))

write_ascii(context, val, w) ==
  Forward(context, Invoke(context.write_ascii,
            <<PtrArg(context.context_state), StrArg(val)>>, w))

\* Mutant: the drawn value is also written to the sink.
rand_i64_echoed(context, lower, higher, w) ==
  UNION {{[ret |-> o.ret, world |-> e.world, trace |-> o.trace \o e.trace,
           via |-> <<>>, context |-> context]
            : e \in Invoke(context.write_i64,
                      <<PtrArg(context.context_state), I64Arg(o.ret.v[1])>>, o.world)}
           : o \in Invoke(context.rand_i64, <<I64Arg(lower), I64Arg(higher)>>, w)}

\* Mutant: the result passes through an int.
rand_i64_narrowed(context, lower, higher, w) ==
  {[o EXCEPT !.ret = RetInt(Narrow(o.ret.v[1]))] :
     o \in Forward(context, Invoke(context.rand_i64,
             <<I64Arg(lower), I64Arg(higher)>>, w))}

rand_i64(context, lower, higher, w) ==
  Forward(context, Invoke(context.rand_i64, <<I64Arg(lower), I64Arg(higher)>>, w))

ViaCall(prim, args, ret) == [prim |-> prim, args |-> args, ret |-> ret]

RECURSIVE write_i64_seq_backwards(_, _, _)
\* Mutant: the range is walked from its end.
write_i64_seq_backwards(context, range, w) ==
  IF range = <<>>
  THEN {[ret |-> RetVoid, world |-> w, trace |-> <<>>, via |-> <<>>,
         context |-> context]}
  ELSE LET x == range[Len(range)]
           rest == SubSeq(range, 1, Len(range) - 1)
       IN  UNION {{[ret |-> RetVoid, world |-> r.world, trace |-> o.trace \o r.trace,
                    via |-> <<ViaCall("write_i64", <<I64Arg(x)>>, o.ret)>> \o r.via,
                    context |-> r.context]
                     : r \in write_i64_seq_backwards(o.context, rest, o.world)}
                    : o \in write_i64(context, x, w)}

RECURSIVE write_i64_seq(_, _, _)
\* while (first != end) write_i64(context, *first), first++;
write_i64_seq(context, range, w) ==
  IF range = <<>>
  THEN {[ret |-> RetVoid, world |-> w, trace |-> <<>>, via |-> <<>>,
         context |-> context]}
  ELSE UNION {{[ret |-> RetVoid, world |-> r.world, trace |-> o.trace \o r.trace,
                via |-> <<ViaCall("write_i64", <<I64Arg(Head(range))>>, o.ret)>> \o r.via,
                context |-> r.context]
                 : r \in write_i64_seq(o.context, Tail(range), o.world)}
                : o \in write_i64(context, Head(range), w)}

RECURSIVE rand_i64_array_loop(_, _, _, _, _)
\* for (i64 i = 0; i < length; i++) res[i] = rand_i64(context, lower, higher);
rand_i64_array_loop(i, length, lower, higher, acc) ==
  IF ~(i < length) THEN {acc}
  ELSE UNION {rand_i64_array_loop(i + 1, length, lower, higher,
                [ret |-> RetArray([acc.ret.v EXCEPT ![i + 1] = o.ret.v[1]]),
                 world |-> o.world, trace |-> acc.trace \o o.trace,
                 via |-> Append(acc.via,
                           ViaCall("rand_i64", <<I64Arg(lower), I64Arg(higher)>>, o.ret)),
                 context |-> o.context])
                : o \in rand_i64(acc.context, lower, higher, acc.world)}

\* Mutant: the loop starts at index 1.
rand_i64_array_from_1(context, length, lower, higher, w) ==
  IF length < 0
  THEN {[ret |-> RetThrow, world |-> w, trace |-> <<>>, via |-> <<>>,
         context |-> context]}
  ELSE rand_i64_array_loop(1, length, lower, higher,
         [ret |-> RetArray([k \in 1 .. length |-> 0]), world |-> w,
          trace |-> <<>>, via |-> <<>>, context |-> context])

\* std::vector<i64> res(length) holds `length` zeros; a negative length is
\* converted to a size beyond max_size() and the constructor throws.
rand_i64_array(context, length, lower, higher, w) ==
  IF length < 0
  THEN {[ret |-> RetThrow, world |-> w, trace |-> <<>>, via |-> <<>>,
         context |-> context]}
  ELSE rand_i64_array_loop(0, length, lower, higher,
         [ret |-> RetArray([k \in 1 .. length |-> 0]), world |-> w,
          trace |-> <<>>, via |-> <<>>, context |-> context])

\* The body of the harness entry point, as the statements it executes.
CallStmt(callee, arg) == [op |-> "call", callee |-> callee, arg |-> arg]

\* Mutant: generate is called twice.
__generate_twice(context) ==
  <<CallStmt("generate", context), CallStmt("generate", context)>>

__generate(context) == <<CallStmt("generate", context)>>

(***************************************************************************)
(* State.                                                                  *)
(***************************************************************************)
VARIABLES
  gen_contexts,  \* handle -> context_t of src/src/cpfuzz.c
  con_contexts,  \* handle -> context_t of src/src/cpfuzz.cpp
  world,         \* the backend state objects, the random source, caller memory
  session,       \* which context this session's caller holds, and who drives it
  stack,         \* call stack of the harness: frames of __generate and generate
  harness,       \* what the running or last __generate invocation executed
  last,          \* the last completed public call: arguments, result, calls made
  prev,          \* the public call completed before `last`
  issued,        \* handle -> the write operations callers issued on it, in order
  ncalls         \* public calls completed in this session

vars == <<gen_contexts, con_contexts, world, session, stack, harness, last, prev,
          issued, ncalls>>

GenHandles == {"G1", "G2"}
ConHandles == {"C1", "C2"}

\* The two translation units define unrelated context_t types, so a session
\* holds either a Generation Context or a Consumption Context.
Sessions ==
  [kind : {"gen"}, handle : GenHandles, driver : {"direct"}]
    \cup [kind : {"con"}, handle : ConHandles, driver : {"direct", "harness"}]

\* Backend construction (an external collaborator): every slot populated, a
\* state object per context.  G2 is bound to an empty byte source.
BufTable(state) ==
  [gen_new_line |-> "buf_gen_new_line", gen_i64 |-> "buf_gen_i64",
   gen_i64_array |-> "buf_gen_i64_array", gen_ascii |-> "buf_gen_ascii",
   context_state |-> state]

SinkTable(state) ==
  [write_nl |-> "sink_write_nl", write_i64 |-> "sink_write_i64",
   write_ascii |-> "sink_write_ascii", rand_i64 |-> "rng_rand_i64",
   context_state |-> state]

InitWorld ==
  [buf |-> [p \in BufPtrs |->
              [bytes |-> IF p = "bufA" THEN <<1, 0>> ELSE <<>>, pos |-> 0]],
   sink |-> [p \in SinkPtrs |-> <<>>],
   rng |-> 1,
   mem |-> [p \in MemPtrs |-> ""],
   crashed |-> FALSE]

NoCall ==
  [prim |-> "none", handle |-> "", args |-> <<>>, ret |-> RetVoid,
   trace |-> <<>>, via |-> <<>>]

NoHarness == [state |-> "none", context |-> "", done |-> <<>>]

Init ==
  /\ gen_contexts = [h \in GenHandles |-> BufTable(IF h = "G1" THEN "bufA" ELSE "bufB")]
  /\ con_contexts = [h \in ConHandles |-> SinkTable(IF h = "C1" THEN "sinkA" ELSE "sinkB")]
  /\ world = InitWorld
  /\ session \in Sessions
  /\ stack = <<>>
  /\ harness = NoHarness
  /\ last = NoCall
  /\ prev = NoCall
  /\ issued = [h \in ConHandles |-> <<>>]
  /\ ncalls = 0

Top == stack[Len(stack)]

(***************************************************************************)
(* Calls of the Generation Context's primitives by test-construction code. *)
(***************************************************************************)
GenReady == session.kind = "gen" /\ ncalls < MaxCalls /\ ~world.crashed

Completed(prim, h, args, o) ==
  /\ prev' = last
  /\ last' = [prim |-> prim, handle |-> h, args |-> args, ret |-> o.ret,
              trace |-> o.trace, via |-> o.via]
  /\ world' = o.world
  /\ ncalls' = ncalls + 1
  /\ UNCHANGED <<session, stack, harness>>

GenCompleted(prim, h, args, o) ==
  /\ Completed(prim, h, args, o)
  /\ gen_contexts' = [gen_contexts EXCEPT ![h] = o.context]
  /\ UNCHANGED <<con_contexts, issued>>

Do_gen_newline ==
  /\ GenReady
  /\ LET h == session.handle
     IN  \E o \in gen_newline(gen_contexts[h], world) :
           GenCompleted("gen_newline", h, <<>>, o)

Do_gen_i64 ==
  /\ GenReady
  /\ LET h == session.handle
     IN  \E r \in Ranges :
           \E o \in gen_i64(gen_contexts[h], r[1], r[2], world) :
             GenCompleted("gen_i64", h, <<I64Arg(r[1]), I64Arg(r[2])>>, o)

Do_gen_i64_array ==
  /\ GenReady
  /\ LET h == session.handle
     IN  \E length \in 0 .. MaxLen, r \in ArrayRanges :
           \E o \in gen_i64_array(gen_contexts[h], length, r[1], r[2], world) :
             GenCompleted("gen_i64_array", h,
                          <<SizeArg(length), I64Arg(r[1]), I64Arg(r[2])>>, o)

Do_gen_ascii ==
  /\ GenReady
  /\ LET h == session.handle
     IN  \E ascii \in MemPtrs :
           \E o \in gen_ascii(gen_contexts[h], ascii, world) :
             GenCompleted("gen_ascii", h, <<PtrArg(ascii)>>, o)

(***************************************************************************)
(* Calls of the Consumption Context's primitives: by a test program (a     *)
(* direct session) or by the user's generate, on the context it was given. *)
(***************************************************************************)
ConReady(limit) ==
  /\ session.kind = "con"
  /\ ncalls < limit
  /\ ~world.crashed
  /\ session.driver = "harness" => (stack # <<>> /\ Top.fn = "generate")

ConHandle == IF session.driver = "direct" THEN session.handle ELSE Top.context

ConCompleted(prim, h, args, o, writes) ==
  /\ Completed(prim, h, args, o)
  /\ con_contexts' = [con_contexts EXCEPT ![h] = o.context]
  /\ issued' = [issued EXCEPT ![h] = @ \o writes]
  /\ UNCHANGED gen_contexts

Do_write_nl(limit) ==
  /\ ConReady(limit)
  /\ LET h == ConHandle
     IN  \E o \in write_nl(con_contexts[h], world) :
           ConCompleted("write_nl", h, <<>>, o, <<RecNl>>)

Do_write_i64(limit) ==
  /\ ConReady(limit)
  /\ LET h == ConHandle
     IN  \E val \in WriteVals :
           \E o \in write_i64(con_contexts[h], val, world) :
             ConCompleted("write_i64", h, <<I64Arg(val)>>, o, <<RecI64(val)>>)

Do_write_ascii(limit) ==
  /\ ConReady(limit)
  /\ LET h == ConHandle
     IN  \E val \in WriteStrs :
           \E o \in write_ascii(con_contexts[h], val, world) :
             ConCompleted("write_ascii", h, <<StrArg(val)>>, o, <<RecAscii(val)>>)

Do_rand_i64 ==
  /\ ConReady(MaxCalls)
  /\ LET h == ConHandle
     IN  \E r \in Ranges :
           \E o \in rand_i64(con_contexts[h], r[1], r[2], world) :
             ConCompleted("rand_i64", h, <<I64Arg(r[1]), I64Arg(r[2])>>, o, <<>>)

SeqArgs(range) == [i \in 1 .. Len(range) |-> I64Arg(range[i])]
SeqRecs(range) == [i \in 1 .. Len(range) |-> RecI64(range[i])]

Do_write_i64_seq ==
  /\ ConReady(MaxCalls)
  /\ LET h == ConHandle
     IN  \E range \in SeqsUpTo(WriteVals, MaxLen) :
           \E o \in write_i64_seq(con_contexts[h], range, world) :
             ConCompleted("write_i64_seq", h, SeqArgs(range), o, SeqRecs(range))

Do_rand_i64_array ==
  /\ ConReady(MaxCalls)
  /\ LET h == ConHandle
     IN  \E length \in -1 .. MaxLen, r \in ArrayRanges :
           \E o \in rand_i64_array(con_contexts[h], length, r[1], r[2], world) :
             ConCompleted("rand_i64_array", h,
                          <<I64Arg(length), I64Arg(r[1]), I64Arg(r[2])>>, o, <<>>)

(***************************************************************************)
(* The harness: the driver calls __generate(context); its body runs        *)
(* statement by statement; the user's generate runs and returns.           *)
(***************************************************************************)
Frame(fn, context, todo) == [fn |-> fn, context |-> context, todo |-> todo]

Driver_calls___generate ==
  /\ session.kind = "con" /\ session.driver = "harness"
  /\ stack = <<>> /\ harness.state = "none"
  /\ stack' = <<Frame("__generate", session.handle, __generate(session.handle))>>
  /\ harness' = [state |-> "running", context |-> session.handle, done |-> <<>>]
  /\ UNCHANGED <<gen_contexts, con_contexts, world, session, last, prev, issued, ncalls>>

\* The next statement of __generate: a call of a user function.
Step___generate ==
  /\ stack # <<>> /\ Top.fn = "__generate" /\ Top.todo # <<>>
  /\ LET stmt == Head(Top.todo)
     IN  /\ stack' = [stack EXCEPT ![Len(stack)].todo = Tail(@)]
                       \o <<Frame(stmt.callee, stmt.arg, <<>>)>>
         /\ harness' = [harness EXCEPT !.done = Append(@, stmt)]
  /\ UNCHANGED <<gen_contexts, con_contexts, world, session, last, prev, issued, ncalls>>

Return_generate ==
  /\ stack # <<>> /\ Top.fn = "generate"
  /\ stack' = SubSeq(stack, 1, Len(stack) - 1)
  /\ UNCHANGED <<gen_contexts, con_contexts, world, session, harness, last, prev,
                 issued, ncalls>>

Return___generate ==
  /\ stack # <<>> /\ Top.fn = "__generate" /\ Top.todo = <<>>
  /\ stack' = SubSeq(stack, 1, Len(stack) - 1)
  /\ harness' = [harness EXCEPT !.state = "returned"]
  /\ UNCHANGED <<gen_contexts, con_contexts, world, session, last, prev, issued, ncalls>>

Next ==
  \/ Do_gen_newline
  \/ Do_gen_i64
  \/ Do_gen_i64_array
  \/ Do_gen_ascii
  \/ Do_write_nl(MaxCalls)
  \/ Do_write_i64(MaxCalls)
  \/ Do_write_ascii(MaxCalls)
  \/ Do_rand_i64
  \/ Do_write_i64_seq
  \/ Do_rand_i64_array
  \/ Driver_calls___generate
  \/ Step___generate
  \/ Return_generate
  \/ Return___generate

Spec == Init /\ [][Next]_vars

\* The recording-sink scenario: a test program that only writes, directly.
InitSink == Init /\ session.kind = "con" /\ session.driver = "direct"

NextSink ==
  \/ Do_write_nl(MaxWrites)
  \/ Do_write_i64(MaxWrites)
  \/ Do_write_ascii(MaxWrites)

SpecSink == InitSink /\ [][NextSink]_vars

(***************************************************************************)
(* Properties.                                                             *)
(***************************************************************************)
\* The context_t a completed call went through.
ContextOf(c) ==
  IF c.handle \in GenHandles THEN gen_contexts[c.handle] ELSE con_contexts[c.handle]

StateOf(c) == PtrArg(ContextOf(c).context_state)

\* The table slot a forwarding primitive calls through.
SlotOf(c) ==
  LET t == ContextOf(c)
  IN  CASE c.prim = "gen_newline" -> t.gen_new_line
        [] c.prim = "gen_i64" -> t.gen_i64
        [] c.prim = "gen_i64_array" -> t.gen_i64_array
        [] c.prim = "gen_ascii" -> t.gen_ascii
        [] c.prim = "write_nl" -> t.write_nl
        [] c.prim = "write_i64" -> t.write_i64
        [] c.prim = "write_ascii" -> t.write_ascii
        [] c.prim = "rand_i64" -> t.rand_i64

StatefulPrims ==
  {"gen_newline", "gen_i64", "gen_i64_array", "gen_ascii", "write_nl", "write_i64",
   "write_ascii"}
ForwardingPrims == StatefulPrims \cup {"rand_i64"}
ValuePrims == {"gen_i64", "gen_i64_array", "rand_i64"}
WriteSlots == {"sink_write_nl", "sink_write_i64", "sink_write_ascii"}

Calls == {last, prev}

OneCallThroughSlot(c) == Len(c.trace) = 1 /\ c.trace[1].fn = SlotOf(c)

\* C1 as stated: every one of the eight primitives makes its indirect call
\* through the table with context->context_state as the first argument.
C1_StateFirstInEveryPrimitive ==
  \A c \in Calls :
    c.prim \in ForwardingPrims =>
      /\ OneCallThroughSlot(c)
      /\ c.trace[1].args[1] = StateOf(c)

\* C1 amended: the seven primitives other than rand_i64 call through their slot
\* with context->context_state first, followed by the caller's arguments;
\* rand_i64 calls through its slot with (lower, higher) only, and the backend
\* state is not passed.
C1_StateFirstExceptRand ==
  \A c \in Calls :
    /\ c.prim \in StatefulPrims =>
         /\ OneCallThroughSlot(c)
         /\ c.trace[1].args = <<StateOf(c)>> \o c.args
    /\ c.prim = "rand_i64" =>
         /\ OneCallThroughSlot(c)
         /\ c.trace[1].args = c.args
         /\ \A i \in 1 .. Len(c.trace[1].args) : c.trace[1].args[i].t # "ptr"

C1_Witness ==
  /\ prev.prim = "gen_ascii" /\ prev.trace[1].args[1] = PtrArg("bufB")
  /\ last.prim = "gen_i64" /\ last.trace[1].args[1] = PtrArg("bufB")

\* C2: one call of gen_i64, gen_i64_array or rand_i64 makes exactly one call
\* of the matching slot and returns the value that call returned; two
\* successive calls whose backend results differ return the differing results.
C2_ReturnsBackendValueVerbatim ==
  /\ \A c \in Calls :
       c.prim \in ValuePrims =>
         /\ OneCallThroughSlot(c)
         /\ c.ret = c.trace[1].ret
  /\ (/\ prev.prim \in ValuePrims
      /\ last.prim = prev.prim
      /\ Len(prev.trace) = 1 /\ Len(last.trace) = 1
      /\ prev.trace[1].ret # last.trace[1].ret)
       => (prev.ret # last.ret /\ prev.ret = prev.trace[1].ret
           /\ last.ret = last.trace[1].ret)

C2_Witness ==
  /\ prev.prim = "gen_i64" /\ prev.args = <<I64Arg(I64Min), I64Arg(I64Max)>>
  /\ last.prim = "gen_i64" /\ last.args = <<I64Arg(I64Min), I64Arg(I64Max)>>
  /\ prev.ret = RetInt(I64Min + 1)
  /\ last.ret = RetInt(I64Min)

\* C3: write_i64_seq over a sequence of length k calls write_i64 exactly k
\* times, the i-th call with the i-th element, and makes no other backend
\* call; over an empty range nothing is written.
C3_SeqWritesEachElementInOrder ==
  last.prim = "write_i64_seq" =>
    LET k == Len(last.args)
    IN  /\ Len(last.via) = k
        /\ Len(last.trace) = k
        /\ \A i \in 1 .. k :
             /\ last.via[i].prim = "write_i64"
             /\ last.via[i].args = <<last.args[i]>>
             /\ last.trace[i].fn = ContextOf(last).write_i64
             /\ last.trace[i].args = <<StateOf(last), last.args[i]>>

C3_Witness ==
  /\ last.prim = "write_i64_seq"
  /\ last.args = <<I64Arg(42), I64Arg(I64Min)>>
  /\ Len(last.trace) = 2
  /\ prev.prim = "write_i64_seq" /\ prev.args = <<>> /\ prev.trace = <<>>

C5_SinkRecordsWritesInOrder ==
  \A h \in ConHandles :
    world.sink[con_contexts[h].context_state] = issued[h]

C5_Witness ==
  /\ issued["C1"] = <<RecI64(42), RecNl, RecAscii("abc")>>
  /\ world.sink["sinkA"] = <<RecI64(42), RecNl, RecAscii("abc")>>
  /\ ncalls = 3

InRange(c) ==
  /\ c.ret.t = "i64"
  /\ c.args[1].n <= c.ret.v[1]
  /\ c.ret.v[1] <= c.args[2].n

\* C6: for lo <= hi, every gen_i64(context, lo, hi) and rand_i64(context, lo,
\* hi) of a sequence of calls returns v with lo <= v <= hi.
C6_ResultWithinRange ==
  \A c \in Calls :
    (c.prim \in {"gen_i64", "rand_i64"} /\ c.args[1].n <= c.args[2].n) => InRange(c)

C6_Witness ==
  /\ prev.prim = "rand_i64" /\ prev.args = <<I64Arg(I64Max), I64Arg(I64Max)>>
  /\ prev.ret = RetInt(I64Max)
  /\ last.prim = "rand_i64" /\ last.args = <<I64Arg(0), I64Arg(0)>>
  /\ last.ret = RetInt(0)

\* C7: __generate(context) calls generate exactly once, with the context it
\* was given, and does nothing else: while its own frame runs, no primitive
\* is called and neither the backends nor the contexts change.
C7_HarnessOnlyCallsGenerate ==
  [][/\ harness'.state = "returned" =>
          harness'.done = <<CallStmt("generate", harness'.context)>>
     /\ (stack # <<>> /\ Top.fn = "__generate") =>
          /\ world' = world
          /\ con_contexts' = con_contexts
          /\ ncalls' = ncalls
          /\ Len(harness'.done) <= 1
          /\ \A i \in 1 .. Len(harness'.done) :
               harness'.done[i] = CallStmt("generate", harness.context)]_vars

C7_Witness ==
  /\ harness.state = "returned" /\ harness.context = "C2"
  /\ stack = <<>>
  /\ last.prim = "write_i64" /\ last.handle = "C2"

\* C8: on a buffer-backed Generation Context whose byte source is empty,
\* gen_i64 returns the fallback, lower: gen_i64(context, 5, 10) returns 5, and
\* nothing crashes.
C8_EmptySourceReturnsLower ==
  \A c \in Calls :
    (/\ c.prim = "gen_i64"
     /\ world.buf[ContextOf(c).context_state].bytes = <<>>)
      => /\ c.ret = RetInt(c.args[1].n)
         /\ c.args = <<I64Arg(5), I64Arg(10)>> => c.ret = RetInt(5)
         /\ ~world.crashed

C8_Witness ==
  /\ last.prim = "gen_i64" /\ last.handle = "G2"
  /\ world.buf["bufB"].bytes = <<>>
  /\ last.args = <<I64Arg(5), I64Arg(10)>>
  /\ last.ret = RetInt(5)

ArgsForwarded(c) ==
  CASE c.prim \in {"gen_i64", "gen_i64_array"} ->
         /\ Len(c.trace) = 1
         /\ c.trace[1].args = <<StateOf(c)>> \o c.args
    [] c.prim = "rand_i64" ->
         /\ Len(c.trace) = 1
         /\ c.trace[1].args = c.args
    [] c.prim = "rand_i64_array" ->
         \A i \in 1 .. Len(c.trace) : c.trace[i].args = <<c.args[2], c.args[3]>>

NoErrorSurfaced(c) == c.ret.t # "throw" /\ ~world.crashed

RangePrims == {"gen_i64", "gen_i64_array", "rand_i64", "rand_i64_array"}

C10_ContextsAndSinksUntouched ==
  [][/\ gen_contexts' = gen_contexts
     /\ con_contexts' = con_contexts
     /\ (ncalls' # ncalls /\ last'.prim \in {"rand_i64", "rand_i64_array"}) =>
          /\ world'.sink = world.sink
          /\ \A i \in 1 .. Len(last'.trace) : last'.trace[i].fn \notin WriteSlots]_vars

C10_Witness ==
  /\ prev.prim = "write_i64" /\ prev.args = <<I64Arg(42)>>
  /\ last.prim = "rand_i64_array" /\ last.args[1].n = 2
  /\ world.sink[con_contexts[last.handle].context_state] = <<RecI64(42)>>

=============================================================================
